---- MODULE Spec2Model ----
(***************************************************************************)
(* A model of src/main.py: the markdown editor's document state            *)
(* (MainWindow), its find/replace dialog (FindReplaceDialog), the file and *)
(* session I/O, and the preview rendering.                                 *)
(*                                                                         *)
(* Text is a sequence of one-character strings.  Offsets are 0-based, as   *)
(* QTextCursor positions are: offset i lies before the (i+1)-th character. *)
(***************************************************************************)
EXTENDS Integers, Sequences, FiniteSets, TLC

\* ------------------------------------------------------------- bounds

\* longest text the user types or a file holds (document specification)
MaxLen == 1
\* longest buffer the find/replace specification starts from
MaxFRLen == 3
\* longest find text drawn in the find/replace specification
MaxFindLen == 2
\* longest replacement text drawn in the find/replace specification
MaxReplLen == 2
\* longest file the round-trip specification loads
MaxFileLen == 2

\* ------------------------------------------------------------- text

\* what the buffers and find texts of the find/replace specification are
\* made of
Alphabet == {"a", "A"}

\* what its replacement texts are made of
InputAlphabet == {"a", "b"}

RECURSIVE Strings(_, _)
Strings(A, n) ==
    IF n = 0 THEN {<<>>}
    ELSE LET S == Strings(A, n - 1)
         IN  S \cup {Append(s, c) : s \in {x \in S : Len(x) = n - 1}, c \in A}

\* s[i+1 .. j], the text between offsets i and j
Slice(s, i, j) == SubSeq(s, i + 1, j)

\* t occurs in s at offset i, compared character by character
OccursAt(s, t, i) ==
    /\ i >= 0
    /\ i + Len(t) <= Len(s)
    /\ \A k \in 1..Len(t) : s[i + k] = t[k]

\* Qt::CaseInsensitive comparison folds case
Fold(c) == IF c = "A" THEN "a" ELSE c

FoldOccursAt(s, t, i) ==
    /\ i >= 0
    /\ i + Len(t) <= Len(s)
    /\ \A k \in 1..Len(t) : Fold(s[i + k]) = Fold(t[k])

NoMatch == -1

\* QString::indexOf(t, from, Qt::CaseInsensitive): least offset >= from, or -1
IndexOfFold(s, t, from) ==
    LET hits == {i \in from..Len(s) : FoldOccursAt(s, t, i)}
    IN  IF hits = {} THEN NoMatch
        ELSE CHOOSE i \in hits : \A j \in hits : i <= j

\* QTextDocument.find(subString, position) with the default (empty) find
\* flags: forward and case-insensitive; an empty subString finds nothing.
\* The result is the offset of the match (the returned cursor's anchor; its
\* position is the offset plus the length), or NoMatch for a null cursor.
DocFind(s, t, from) ==
    IF t = <<>> THEN NoMatch ELSE IndexOfFold(s, t, from)

\* str.find(t, from): least offset >= from where t occurs exactly, or -1
IndexOf(s, t, from) ==
    LET hits == {i \in from..Len(s) : OccursAt(s, t, i)}
    IN  IF hits = {} THEN NoMatch
        ELSE CHOOSE i \in hits : \A j \in hits : i <= j

\* str.replace(t, r) for a non-empty t: find the next occurrence at or after
\* the scan offset, copy what precedes it, emit r, continue after the match
RECURSIVE ReplaceFrom(_, _, _, _)
ReplaceFrom(s, t, r, from) ==
    LET i == IndexOf(s, t, from)
    IN  IF i = NoMatch THEN Slice(s, from, Len(s))
        ELSE Slice(s, from, i) \o r \o ReplaceFrom(s, t, r, i + Len(t))

\* str.replace("", r): r goes before every character and after the last
RECURSIVE Interleave(_, _, _)
Interleave(s, r, k) ==
    IF k > Len(s) THEN r
    ELSE r \o <<s[k]>> \o Interleave(s, r, k + 1)

\* StrReplace replacing the first occurrence only, as str.replace(t, r, 1)
StrReplaceOnce(s, t, r) ==
    LET i == IndexOf(s, t, 0)
    IN  IF i = NoMatch THEN s
        ELSE Slice(s, 0, i) \o r \o Slice(s, i + Len(t), Len(s))

\* Python's str.replace(t, r), every occurrence
StrReplace(s, t, r) ==
    IF t = <<>> THEN Interleave(s, r, 1) ELSE ReplaceFrom(s, t, r, 0)

\* ------------------------------------------------------------- files

\* Python's None
None == "None"

Paths == {"f1", "f2"}

\* a file: whether it exists, and what it holds when it does
NoFile == [exists |-> FALSE, data |-> <<>>]

File(d) == [exists |-> TRUE, data |-> d]

\* what the user types in the document specification
DocAlphabet == {"a"}

Texts == Strings(DocAlphabet, MaxLen)

\* the line ends: carriage return and line feed
CR == "\r"

LF == "\n"

\* os.linesep: "\n" on POSIX, "\r\n" on Windows
Posix == <<LF>>

Windows == <<CR, LF>>

LineSeps == {Posix, Windows}

\* a text file opened with newline=None is read with universal newlines:
\* "\r\n" and a lone "\r" both come out as "\n"
RECURSIVE TranslateNewlines(_, _)
TranslateNewlines(d, k) ==
    IF k > Len(d) THEN <<>>
    ELSE IF d[k] = CR
    THEN <<LF>> \o TranslateNewlines(d, IF k < Len(d) /\ d[k + 1] = LF
                                        THEN k + 2 ELSE k + 1)
    ELSE <<d[k]>> \o TranslateNewlines(d, k + 1)

\* and is written with every "\n" turned into sep, the platform's os.linesep
RECURSIVE WriteNewlines(_, _, _)
WriteNewlines(t, sep, k) ==
    IF k > Len(t) THEN <<>>
    ELSE (IF t[k] = LF THEN sep ELSE <<t[k]>>) \o WriteNewlines(t, sep, k + 1)

\* open(path, "r", encoding="utf-8").read() of a file holding valid UTF-8:
\* the characters the data encodes, the line ends translated
ReadText(d) == TranslateNewlines(d, 1)

\* what a write that raised can leave of the target: open() failed and the
\* file is as it was, or open() truncated it and write() failed
FailedWrite(f) == {f, File(<<>>)}

\* the session file's content: missing, unreadable, not JSON, JSON that is
\* not an object, or a JSON object.  A key of the object is absent, null
\* or a string.
Absent == [tag |-> "absent", s |-> <<>>]

Null == [tag |-> "null", s |-> <<>>]

Str(x) == [tag |-> "str", s |-> x]

NoKeys == [last_file |-> Absent, last_text |-> Absent]

SessionMissing == [kind |-> "missing", obj |-> NoKeys]

SessionUnreadable == [kind |-> "unreadable", obj |-> NoKeys]

SessionNotJson == [kind |-> "notjson", obj |-> NoKeys]

SessionNonObject == [kind |-> "nonobject", obj |-> NoKeys]

SessionObject(o) == [kind |-> "object", obj |-> o]

\* the session objects startup is tried on; a path is stored as the
\* one-element text <<path>>
SessionObjects ==
    {SessionObject([last_file |-> f, last_text |-> t]) :
        f \in {Absent, Null, Str(<<"f1">>)},
        t \in {Absent, Null, Str(<<>>), Str(<<"b">>)}}

SessionFiles ==
    {SessionMissing, SessionUnreadable, SessionNotJson, SessionNonObject}
        \cup SessionObjects

\* json.dump(data, f) of save_session's dict
SessionDump(path, txt) ==
    SessionObject([last_file |-> IF path = None THEN Null ELSE Str(<<path>>),
                   last_text |-> Str(txt)])

\* dict.get(key): None for an absent key and for a null
Get(o, key) == IF o[key].tag = "str" THEN o[key] ELSE Null

\* ------------------------------------------------------------- state

VARIABLES
    pc,                 \* "init" | "running" | "crashed" | "closed"
    argv,               \* sys.argv[1], or None
    session_file,       \* content of SESSION_FILE
    disk,               \* the files at Paths
    text,               \* left_pane's plain text
    anchor,             \* left_pane's cursor: anchor
    position,           \* left_pane's cursor: position
    undoStack,          \* the document's undo history (its latest step)
    current_file_path,
    is_modified,
    shown,              \* window.show() was called
    preview_visible,    \* right_pane's own visibility flag
    html,               \* what right_pane shows
    window_title,
    dlg,                \* a FindReplaceDialog is open (modal)
    find_input,
    replace_input,
    linesep,            \* os.linesep of the platform the program runs on
    op,                 \* the handler that ran last, and how it ended
    answer,             \* what confirm_discard_changes asked the user in it
    render              \* what its render pass did

vars == <<pc, argv, session_file, disk, linesep, text, anchor, position, undoStack,
          current_file_path, is_modified, shown, preview_visible, html,
          window_title, dlg, find_input, replace_input, op, answer,
          render>>

env == <<argv, session_file, disk, linesep>>

\* open(path, "w", encoding="utf-8").write(t): the data t is stored as
WriteData(t) == WriteNewlines(t, linesep, 1)

editor == <<text, anchor, position, undoStack>>

dialog == <<dlg, find_input, replace_input>>

\* the document's state: buffer, file association, dirty flag
doc == <<text, current_file_path, is_modified>>

Placeholder == [kind |-> "placeholder", src |-> <<>>]

\* convert_markdown_to_html(md_text): the stylesheet followed by the
\* converter's output for md_text
convert_markdown_to_html(md_text) == [kind |-> "rendered", src |-> md_text]

InitialTitle == [name |-> "My PyQt6 QMainWindow", mark |-> ""]

Title(path, modified) ==
    [name |-> IF path # None THEN path ELSE "Untitled",
     mark |-> IF modified THEN "*" ELSE ""]

\* QWidget.isVisible(): the widget and its window are shown
IsVisible == shown /\ preview_visible

\* ------------------------------------------------------------- handlers

\* MainWindow.update_preview, called with the buffer's text and with what
\* right_pane.isVisible() returns; nextpc is where the caller goes on if no
\* exception escapes.  The converter may raise:
\* nothing catches it, the exception leaves the slot and PyQt aborts.
update_preview(md_text, visible, raises, nextpc) ==
    IF ~visible
    THEN /\ html' = html
         /\ render' = "skipped"
         /\ pc' = nextpc
    ELSE IF raises
    THEN /\ html' = html
         /\ render' = "raised"
         /\ pc' = "crashed"
    ELSE /\ html' = convert_markdown_to_html(md_text)
         /\ render' = "ok"
         /\ pc' = nextpc

\* whether the converter can raise in a render pass: it runs only when the
\* preview is visible
Raises(visible) == IF visible THEN BOOLEAN ELSE {FALSE}

\* on_text_modified without the flag: it renders and leaves is_modified alone
on_text_modified_unflagged(raises) ==
    /\ is_modified' = is_modified
    /\ window_title' = window_title
    /\ update_preview(text', IsVisible, raises, pc)

\* MainWindow.on_text_modified, the slot of left_pane.textChanged
on_text_modified(raises) ==
    /\ is_modified' = TRUE
    /\ window_title' = IF ~is_modified THEN Title(current_file_path, TRUE)
                       ELSE window_title
    /\ update_preview(text', IsVisible, raises, pc)

\* QTextEdit.setPlainText(t): the text is replaced, the cursor goes to the
\* start and the undo history is cleared
setPlainText(t) ==
    /\ text' = t
    /\ anchor' = 0
    /\ position' = 0
    /\ undoStack' = <<>>

\* MainWindow.load_file_content(path).  Every open() raises when the file
\* is missing or the read fails (ioFails); then nothing changes.
load_file_content(path, ioFails, raises, nextpc) ==
    IF ~disk[path].exists \/ ioFails
    THEN /\ UNCHANGED <<editor, current_file_path, is_modified, window_title,
                        html>>
         /\ render' = "none"
         /\ pc' = nextpc
    ELSE /\ setPlainText(ReadText(disk[path].data))
         /\ current_file_path' = path
         /\ is_modified' = FALSE
         /\ window_title' = Title(path, FALSE)
         /\ update_preview(text', IsVisible, raises, nextpc)

\* a read of path succeeds: the file exists and no open() or read() raises
LoadOk(path, ioFails) == disk[path].exists /\ ~ioFails

\* whether a read of path can fail: a missing file always fails
ReadFaults(path) ==
    IF path # None /\ disk[path].exists THEN BOOLEAN ELSE {FALSE}

\* MainWindow.try_open_startup_file(path)
try_open_startup_file(path, ioFails, raises, nextpc) ==
    IF disk[path].exists
    THEN /\ op' = IF LoadOk(path, ioFails) THEN "startup:argv_loaded"
                  ELSE "startup:argv_failed"
         /\ load_file_content(path, ioFails, raises, nextpc)
    ELSE /\ op' = "startup:argv_missing"
         /\ UNCHANGED <<editor, current_file_path, is_modified, window_title,
                        html>>
         /\ render' = "none"
         /\ pc' = nextpc

\* the path restore_last_session loads from: last_file when it is a
\* non-empty string and the file exists, else None
SessionPath ==
    LET last_path == Get(session_file.obj, "last_file")
    IN  IF /\ session_file.kind = "object"
           /\ last_path.s # <<>>
           /\ disk[last_path.s[1]].exists
        THEN last_path.s[1] ELSE None

\* MainWindow.restore_last_session
restore_last_session(ioFails, raises, nextpc) ==
    IF session_file.kind \in {"unreadable", "notjson"}
    THEN \* open() or json.load() raised: the bare except returns
         /\ op' = "startup:session_unread"
         /\ UNCHANGED <<editor, current_file_path, is_modified, window_title,
                        html>>
         /\ render' = "none"
         /\ pc' = nextpc
    ELSE IF session_file.kind = "nonobject"
    THEN \* data.get raises AttributeError, outside the try
         /\ op' = "startup:session_raised"
         /\ UNCHANGED <<editor, current_file_path, is_modified, window_title,
                        html>>
         /\ render' = "none"
         /\ pc' = "crashed"
    ELSE LET last_text == Get(session_file.obj, "last_text")
         IN  IF SessionPath # None
             THEN /\ op' = IF LoadOk(SessionPath, ioFails)
                           THEN "startup:session_loaded"
                           ELSE "startup:session_failed"
                  /\ load_file_content(SessionPath, ioFails, raises, nextpc)
             ELSE /\ op' = "startup:session_text"
                  /\ setPlainText(last_text.s)
                  /\ current_file_path' = None
                  /\ is_modified' = FALSE
                  /\ window_title' = Title(None, FALSE)
                  /\ update_preview(text', IsVisible, raises, nextpc)

\* ------------------------------------------------------------- startup

\* the files startup is tried on: each is missing or holds its own text
StartDisks ==
    {[p \in Paths |->
        IF p \notin E THEN NoFile
        ELSE File(WriteData(IF p = "f1" THEN <<"b">> ELSE <<"a">>))] :
        E \in SUBSET Paths}

\* the state MainWindow.__init__ has built before it looks at the session
\* file (lines 339-374), in an environment drawn from the given sets.  No
\* text of these environments holds a line end, so the platform makes no
\* difference to them: they run on POSIX.
Constructed(Args, Sessions, Disks) ==
    /\ pc = "init"
    /\ linesep = Posix
    /\ argv \in Args
    /\ session_file \in Sessions
    /\ disk \in Disks
    /\ text = <<>>
    /\ anchor = 0
    /\ position = 0
    /\ undoStack = <<>>
    /\ current_file_path = None
    /\ is_modified = FALSE
    /\ shown = FALSE
    /\ preview_visible = TRUE
    /\ html = Placeholder
    /\ window_title = InitialTitle
    /\ dlg = FALSE
    /\ find_input = <<>>
    /\ replace_input = <<>>
    /\ op = "construct"
    /\ answer = "unasked"
    /\ render = "none"

\* the document specification starts without a session file
Init == Constructed({None, "f1"}, {SessionMissing}, StartDisks)

\* startup looking at the startup argument before the session file
startup_argument_first ==
    /\ pc = "init"
    /\ IF argv # None
       THEN \E ioFails \in ReadFaults(argv), raises \in Raises(IsVisible) :
                try_open_startup_file(argv, ioFails, raises, "running")
       ELSE IF session_file.kind # "missing"
       THEN \E ioFails \in ReadFaults(SessionPath),
               raises \in Raises(IsVisible) :
                restore_last_session(ioFails, raises, "running")
       ELSE /\ op' = "startup:empty"
            /\ UNCHANGED <<editor, current_file_path, is_modified,
                           window_title, html>>
            /\ render' = "none"
            /\ pc' = "running"
    /\ shown' = (pc' = "running")
    /\ UNCHANGED <<env, preview_visible, dialog>>
    /\ answer' = "unasked"

\* the end of MainWindow.__init__ (the session or the startup file), then
\* main()'s window.show()
startup ==
    /\ pc = "init"
    /\ IF session_file.kind # "missing"
       THEN \E ioFails \in ReadFaults(SessionPath),
               raises \in Raises(IsVisible) :
                restore_last_session(ioFails, raises, "running")
       ELSE IF argv # None
       THEN \E ioFails \in ReadFaults(argv), raises \in Raises(IsVisible) :
                try_open_startup_file(argv, ioFails, raises, "running")
       ELSE /\ op' = "startup:empty"
            /\ UNCHANGED <<editor, current_file_path, is_modified,
                           window_title, html>>
            /\ render' = "none"
            /\ pc' = "running"
    /\ shown' = (pc' = "running")
    /\ UNCHANGED <<env, preview_visible, dialog>>
    /\ answer' = "unasked"

\* ------------------------------------------------------------- editing

Running == pc = "running"

\* the main window takes input: it runs and no modal dialog blocks it
Accepting == Running /\ ~dlg

\* the undo history after a step that changed the buffer from `old`.  The
\* document keeps every step; the model keeps the latest one only, which
\* is what a single undo needs.
PushUndo(stack, old) == <<old>>

\* the user types, pastes or deletes in left_pane: the text becomes s, the
\* document records an undo step and emits textChanged
edit_text(S) ==
    /\ Accepting
    /\ \E s \in S \ {text} :
        /\ text' = s
        /\ anchor' = Len(s)
        /\ position' = Len(s)
        /\ undoStack' = PushUndo(undoStack, text)
    /\ op' = "edit"
    /\ \E raises \in Raises(IsVisible) : on_text_modified(raises)
    /\ UNCHANGED <<env, current_file_path, shown, preview_visible, dialog>>
    /\ answer' = "unasked"

\* the user moves the cursor or selects a range in left_pane
select_range ==
    /\ Accepting
    /\ \E a, p \in 0..Len(text) :
        /\ <<a, p>> # <<anchor, position>>
        /\ anchor' = a
        /\ position' = p
    /\ op' = "select"
    /\ render' = "none"
    /\ UNCHANGED <<env, pc, text, undoStack, current_file_path, is_modified,
                   shown, preview_visible, html, window_title, dialog>>
    /\ answer' = "unasked"

\* what QTextDocument.undo() leaves in the buffer: the text before the last
\* recorded step, or the text as it is when the history is empty
UndoResult == IF undoStack = <<>> THEN text ELSE undoStack[Len(undoStack)]

\* the user undoes the last step (Ctrl+Z in left_pane)
undo ==
    /\ Accepting
    /\ undoStack # <<>>
    /\ text' = UndoResult
    /\ anchor' = Len(text')
    /\ position' = Len(text')
    /\ undoStack' = SubSeq(undoStack, 1, Len(undoStack) - 1)
    /\ op' = "undo"
    /\ \E raises \in Raises(IsVisible) : on_text_modified(raises)
    /\ UNCHANGED <<env, current_file_path, shown, preview_visible, dialog>>
    /\ answer' = "unasked"

\* ------------------------------------------------------------- files

\* MainWindow.confirm_discard_changes is asked only when is_modified holds;
\* Answers are the answers the user can then give
Discards(yes) == ~is_modified \/ yes

Answers == IF is_modified THEN BOOLEAN ELSE {TRUE}

\* what the handler that called confirm_discard_changes got: the question
\* is put only when is_modified holds
Asked(yes) ==
    IF ~is_modified THEN "unasked" ELSE IF yes THEN "yes" ELSE "no"

\* MainWindow.new_file
new_file ==
    /\ Accepting
    /\ \E yes \in Answers, raises \in Raises(IsVisible) :
        /\ answer' = Asked(yes)
        /\ IF ~Discards(yes)
           THEN /\ op' = "new_file:declined"
                /\ render' = "none"
                /\ UNCHANGED <<pc, editor, current_file_path, is_modified,
                               window_title, html>>
           ELSE /\ op' = "new_file"
                /\ setPlainText(<<>>)
                /\ current_file_path' = None
                /\ is_modified' = FALSE
                /\ window_title' = Title(None, FALSE)
                /\ update_preview(text', IsVisible, raises, pc)
    /\ UNCHANGED <<env, shown, preview_visible, dialog>>

\* open_file: the dialog returns a path among P, or "" when cancelled (None
\* here)
open_file(P) ==
    /\ Accepting
    /\ \E yes \in Answers, file_path \in P \cup {None} :
       \E ioFails \in ReadFaults(file_path), raises \in Raises(IsVisible) :
        /\ answer' = Asked(yes)
        /\ IF ~Discards(yes)
           THEN /\ op' = "open_file:declined"
                /\ render' = "none"
                /\ UNCHANGED <<pc, editor, current_file_path, is_modified,
                               window_title, html>>
           ELSE IF file_path = None
           THEN /\ op' = "open_file:cancelled"
                /\ render' = "none"
                /\ UNCHANGED <<pc, editor, current_file_path, is_modified,
                               window_title, html>>
           ELSE /\ op' = IF LoadOk(file_path, ioFails) THEN "open_file:loaded"
                         ELSE "open_file:failed"
                /\ load_file_content(file_path, ioFails, raises, pc)
    /\ UNCHANGED <<env, shown, preview_visible, dialog>>

\* MainWindow.dropEvent: the first URL's local path, among P, or None when
\* there is none
dropEvent(P) ==
    /\ Accepting
    /\ \E path \in P \cup {None} :
       \E ioFails \in ReadFaults(path), raises \in Raises(IsVisible) :
        IF path = None
        THEN /\ op' = "dropEvent:nopath"
             /\ render' = "none"
             /\ UNCHANGED <<pc, editor, current_file_path, is_modified,
                            window_title, html>>
        ELSE /\ op' = IF LoadOk(path, ioFails) THEN "dropEvent:loaded"
                      ELSE "dropEvent:failed"
             /\ load_file_content(path, ioFails, raises, pc)
    /\ UNCHANGED <<env, shown, preview_visible, dialog>>
    /\ answer' = "unasked"

\* write_file with the bookkeeping done before the write, so that a failed
\* write leaves the document marked as saved to file_path
write_file_marked_first(name, file_path, writeFails) ==
    /\ current_file_path' = file_path
    /\ is_modified' = FALSE
    /\ window_title' = Title(file_path, FALSE)
    /\ IF writeFails
       THEN /\ op' = name \o ":failed"
            /\ \E f \in FailedWrite(disk[file_path]) :
                   disk' = [disk EXCEPT ![file_path] = f]
       ELSE /\ op' = name \o ":saved"
            /\ disk' = [disk EXCEPT ![file_path] = File(WriteData(text))]

\* the try block of save_file and of save_file_as, writing to file_path
write_file(name, file_path, writeFails) ==
    IF writeFails
    THEN /\ op' = name \o ":failed"
         /\ \E f \in FailedWrite(disk[file_path]) :
                disk' = [disk EXCEPT ![file_path] = f]
         /\ UNCHANGED <<current_file_path, is_modified, window_title>>
    ELSE /\ op' = name \o ":saved"
         /\ disk' = [disk EXCEPT ![file_path] = File(WriteData(text))]
         /\ current_file_path' = file_path
         /\ is_modified' = FALSE
         /\ window_title' = Title(file_path, FALSE)

\* save_file_as: the dialog returns a path among P, or "" when cancelled
\* (None here)
save_file_as_body(name, P) ==
    \E writeFails \in BOOLEAN, file_path \in P \cup {None} :
        IF file_path = None
        THEN /\ op' = name \o ":cancelled"
             /\ UNCHANGED <<disk, current_file_path, is_modified,
                            window_title>>
        ELSE write_file(name, file_path, writeFails)

save_file_as(P) ==
    /\ Accepting
    /\ save_file_as_body("save_file_as", P)
    /\ render' = "none"
    /\ UNCHANGED <<pc, argv, session_file, linesep, editor, shown,
                   preview_visible, html, dialog>>
    /\ answer' = "unasked"

save_file(P) ==
    /\ Accepting
    /\ IF current_file_path = None
       THEN save_file_as_body("save_file_as", P)
       ELSE \E writeFails \in BOOLEAN :
                write_file("save_file", current_file_path, writeFails)
    /\ render' = "none"
    /\ UNCHANGED <<pc, argv, session_file, linesep, editor, shown,
                   preview_visible, html, dialog>>
    /\ answer' = "unasked"

\* ------------------------------------------------------------- preview, close

\* toggle_preview_mode that shows or hides the pane and never renders
toggle_preview_mode_without_render ==
    /\ Accepting
    /\ op' = "toggle_preview_mode"
    /\ preview_visible' = ~preview_visible
    /\ render' = "none"
    /\ UNCHANGED <<env, pc, editor, current_file_path, is_modified, shown,
                   html, window_title, dialog>>
    /\ answer' = "unasked"

\* MainWindow.toggle_preview_mode(checked), the slot of the checkable menu
\* action: checked is the action's new state, the opposite of the old one
toggle_preview_mode ==
    /\ Accepting
    /\ op' = "toggle_preview_mode"
    /\ LET checked == ~preview_visible
       IN  /\ preview_visible' = checked
           /\ IF checked
              THEN \E raises \in Raises(shown /\ checked) :
                       update_preview(text, shown /\ checked, raises, pc)
              ELSE /\ html' = html
                   /\ render' = "none"
                   /\ pc' = pc
    /\ UNCHANGED <<env, editor, current_file_path, is_modified, shown,
                   window_title, dialog>>
    /\ answer' = "unasked"

\* save_session writing the buffer's text whether or not a file is
\* associated
save_session_with_text(writeFails) ==
    IF writeFails
    THEN session_file' \in {session_file, SessionNotJson}
    ELSE session_file' = SessionDump(current_file_path, text)

\* MainWindow.save_session: json.dump into SESSION_FILE; the bare except
\* swallows a failure, which leaves the file as it was or truncated
save_session(writeFails) ==
    IF writeFails
    THEN session_file' \in {session_file, SessionNotJson}
    ELSE session_file' =
            SessionDump(current_file_path,
                        IF current_file_path = None THEN text ELSE <<>>)

\* how closeEvent ended: with event.accept() or event.ignore(), after a
\* session write that went through or raised
CloseLabel(accepted, writeFails) ==
    IF accepted
    THEN IF writeFails THEN "closeEvent:accepted:no_session"
         ELSE "closeEvent:accepted"
    ELSE IF writeFails THEN "closeEvent:ignored:no_session"
         ELSE "closeEvent:ignored"

\* closeEvent calling save_session only once the close is accepted
closeEvent_session_on_accept ==
    /\ Accepting
    /\ \E writeFails \in BOOLEAN, yes \in Answers :
        /\ IF Discards(yes) THEN save_session(writeFails)
           ELSE session_file' = session_file
        /\ op' = CloseLabel(Discards(yes), writeFails)
        /\ answer' = Asked(yes)
        /\ pc' = IF Discards(yes) THEN "closed" ELSE pc
    /\ render' = "none"
    /\ UNCHANGED <<argv, disk, linesep, editor, current_file_path,
                   is_modified, shown, preview_visible, html, window_title,
                   dialog>>

\* MainWindow.closeEvent
closeEvent ==
    /\ Accepting
    /\ \E writeFails \in BOOLEAN, yes \in Answers :
        /\ save_session(writeFails)
        /\ op' = CloseLabel(Discards(yes), writeFails)
        /\ answer' = Asked(yes)
        /\ pc' = IF Discards(yes) THEN "closed" ELSE pc
    /\ render' = "none"
    /\ UNCHANGED <<argv, disk, linesep, editor, current_file_path,
                   is_modified, shown, preview_visible, html, window_title,
                   dialog>>

\* ------------------------------------------------------------- find/replace

\* MainWindow.open_find_replace: a new modal dialog, its inputs empty
open_find_replace ==
    /\ Accepting
    /\ dlg' = TRUE
    /\ find_input' = <<>>
    /\ replace_input' = <<>>
    /\ op' = "open_find_replace"
    /\ render' = "none"
    /\ UNCHANGED <<env, pc, editor, current_file_path, is_modified, shown,
                   preview_visible, html, window_title>>
    /\ answer' = "unasked"

\* the user closes the dialog: dlg.exec() returns, the dialog is dropped
close_find_replace ==
    /\ Running /\ dlg
    /\ dlg' = FALSE
    /\ find_input' = <<>>
    /\ replace_input' = <<>>
    /\ op' = "close_find_replace"
    /\ render' = "none"
    /\ UNCHANGED <<env, pc, editor, current_file_path, is_modified, shown,
                   preview_visible, html, window_title>>
    /\ answer' = "unasked"

\* the user types into the dialog's two line edits
set_inputs(F, R) ==
    /\ Running /\ dlg
    /\ \E t \in F, r \in R :
        /\ <<t, r>> # <<find_input, replace_input>>
        /\ find_input' = t
        /\ replace_input' = r
    /\ op' = "set_inputs"
    /\ render' = "none"
    /\ UNCHANGED <<env, pc, editor, current_file_path, is_modified, shown,
                   preview_visible, html, window_title, dlg>>
    /\ answer' = "unasked"

\* FindNextCursor without the second search from offset 0
FindNextCursorNoWrap(s, t, a, p) ==
    IF t = <<>> THEN <<a, p>>
    ELSE LET found == DocFind(s, t, p)
         IN  IF found # NoMatch THEN <<found, found + Len(t)>>
             ELSE <<a, p>>

\* FindReplaceDialog.find_next on buffer s with the cursor at <<a, p>>: the
\* cursor it leaves, as <<anchor, position>>
FindNextCursor(s, t, a, p) ==
    IF t = <<>> THEN <<a, p>>
    ELSE LET found == DocFind(s, t, p)
         IN  IF found # NoMatch THEN <<found, found + Len(t)>>
             ELSE LET wrapped == DocFind(s, t, 0)
                  IN  IF wrapped # NoMatch
                      THEN <<wrapped, wrapped + Len(t)>>
                      ELSE <<a, p>>

find_next ==
    /\ Running /\ dlg
    /\ LET c == FindNextCursor(text, find_input, anchor, position)
       IN  /\ anchor' = c[1]
           /\ position' = c[2]
    /\ op' = "find_next"
    /\ render' = "none"
    /\ UNCHANGED <<env, pc, text, undoStack, current_file_path, is_modified,
                   shown, preview_visible, html, window_title, dialog>>
    /\ answer' = "unasked"

Min(x, y) == IF x <= y THEN x ELSE y

Max(x, y) == IF x <= y THEN y ELSE x

\* the selection with its capitals folded, as a comparison that ignores
\* case would read it
SelectedTextFolded ==
    [k \in 1..(Max(anchor, position) - Min(anchor, position)) |->
        Fold(text[Min(anchor, position) + k])]

\* QTextCursor.selectedText()
SelectedText == Slice(text, Min(anchor, position), Max(anchor, position))

\* QTextCursor.insertText(r): the selection is replaced by r
InsertText(s, a, p, r) ==
    Slice(s, 0, Min(a, p)) \o r \o Slice(s, Max(a, p), Len(s))

\* FindReplaceDialog.replace_one.  insertText emits textChanged; when the
\* slot's render raises, the process aborts before find_next runs.
replace_one(cap) ==
    /\ Running /\ dlg
    /\ IF SelectedText = find_input
       THEN LET new == InsertText(text, anchor, position, replace_input)
                at == Min(anchor, position) + Len(replace_input)
            IN  /\ Len(new) <= cap
                /\ op' = "replace_one:replaced"
                /\ text' = new
                /\ undoStack' = IF new # text THEN PushUndo(undoStack, text)
                                ELSE undoStack
                /\ \E raises \in Raises(IsVisible) :
                    /\ on_text_modified(raises)
                    /\ LET c == IF pc' = "crashed" THEN <<at, at>>
                                ELSE FindNextCursor(new, find_input, at, at)
                       IN  /\ anchor' = c[1]
                           /\ position' = c[2]
       ELSE /\ op' = "replace_one:skipped"
            /\ LET c == FindNextCursor(text, find_input, anchor, position)
               IN  /\ anchor' = c[1]
                   /\ position' = c[2]
            /\ render' = "none"
            /\ UNCHANGED <<pc, text, undoStack, is_modified, html,
                           window_title>>
    /\ UNCHANGED <<env, current_file_path, shown, preview_visible, dialog>>
    /\ answer' = "unasked"

\* replace_all that sets the text only when the replacement changed it
replace_all_if_changed(cap) ==
    /\ Running /\ dlg
    /\ LET new == StrReplace(text, find_input, replace_input)
       IN  /\ Len(new) <= cap
           /\ op' = "replace_all"
           /\ IF new = text
              THEN /\ render' = "none"
                   /\ UNCHANGED <<pc, editor, is_modified, html,
                                  window_title>>
              ELSE /\ setPlainText(new)
                   /\ \E raises \in Raises(IsVisible) :
                          on_text_modified(raises)
    /\ UNCHANGED <<env, current_file_path, shown, preview_visible, dialog>>
    /\ answer' = "unasked"

\* FindReplaceDialog.replace_all
replace_all(cap) ==
    /\ Running /\ dlg
    /\ LET new == StrReplace(text, find_input, replace_input)
       IN  /\ Len(new) <= cap
           /\ setPlainText(new)
    /\ op' = "replace_all"
    /\ \E raises \in Raises(IsVisible) : on_text_modified(raises)
    /\ UNCHANGED <<env, current_file_path, shown, preview_visible, dialog>>
    /\ answer' = "unasked"

\* ------------------------------------------------------------- specification

\* the longest buffer the document specification lets a replacement build
DocCap == MaxLen

DocFinds == {<<>>, <<"a">>}

DocRepls == {<<>>, <<"b">>}

Next ==
    \/ startup
    \/ edit_text(Texts)
    \/ new_file
    \/ open_file(Paths)
    \/ dropEvent(Paths)
    \/ save_file(Paths)
    \/ save_file_as(Paths)
    \/ toggle_preview_mode
    \/ closeEvent

Spec == Init /\ [][Next]_vars

\* Startup alone, in every environment: any session file, any startup
\* argument, each file present or missing.
InitStart == Constructed(Paths \cup {None}, SessionFiles, StartDisks)

NextStart == startup

SpecStart == InitStart /\ [][NextStart]_vars

\* Every handler that changes or synchronises the buffer, on one file, the
\* preview staying visible.
EditPaths == {"f1"}

EditDisks == {d \in StartDisks : \A p \in Paths \ EditPaths : d[p] = NoFile}

EditSessions ==
    {SessionMissing,
     SessionObject([last_file |-> Str(<<"f1">>), last_text |-> Str(<<>>)])}

InitEdit == Constructed({None, "f1"}, EditSessions, EditDisks)

NextEdit ==
    \/ startup
    \/ edit_text(Texts)
    \/ select_range
    \/ undo
    \/ new_file
    \/ open_file(EditPaths)
    \/ dropEvent(EditPaths)
    \/ save_file(EditPaths)
    \/ save_file_as(EditPaths)
    \/ open_find_replace
    \/ close_find_replace
    \/ set_inputs(DocFinds, DocRepls)
    \/ find_next
    \/ replace_one(DocCap)
    \/ replace_all(DocCap)

SpecEdit == InitEdit /\ [][NextEdit]_vars

\* The find/replace dialog on a drawn buffer: the window was started from a
\* session that held the buffer as unsaved text, the user placed the cursor,
\* opened the dialog and typed the two inputs.
ExampleText == <<"a", "b", "c", "a", "b", "c">>

ExampleFind == <<"a", "b", "c">>

FRTexts == Strings(Alphabet, MaxFRLen) \cup {ExampleText}

FRFinds == Strings(Alphabet, MaxFindLen) \cup {ExampleFind}

FRRepls == Strings(InputAlphabet, MaxReplLen)

\* the longest buffer the find/replace specification lets a replacement build
FRCap == MaxFRLen * MaxReplLen

InitFR ==
    /\ pc = "running"
    /\ argv = None
    /\ text \in FRTexts
    /\ session_file = SessionObject([last_file |-> Null,
                                     last_text |-> Str(text)])
    /\ disk = [p \in Paths |-> NoFile]
    /\ linesep = Posix
    /\ position \in 0..Len(text)
    /\ anchor = position
    /\ undoStack = <<>>
    /\ current_file_path = None
    /\ is_modified = FALSE
    /\ shown = TRUE
    /\ preview_visible = TRUE
    /\ html = Placeholder
    /\ window_title = Title(None, FALSE)
    /\ dlg = TRUE
    /\ find_input \in FRFinds
    /\ replace_input \in FRRepls
    /\ op = "set_inputs"
    /\ answer = "unasked"
    /\ render = "none"

NextFR ==
    \/ find_next
    \/ replace_one(FRCap)
    \/ replace_all(FRCap)
    \/ close_find_replace
    \/ undo

SpecFR == InitFR /\ [][NextFR]_vars

\* Loading and saving one file that holds line ends, on either platform:
\* the window runs, untitled and empty, and f1 holds the drawn data.
FileAlphabet == {"a", CR, LF}

FileDatas == Strings(FileAlphabet, MaxFileLen)

RoundTripPaths == {"f1"}

InitRT ==
    /\ pc = "running"
    /\ argv = None
    /\ session_file = SessionMissing
    /\ \E d \in FileDatas : disk = [p \in Paths |->
            IF p \in RoundTripPaths THEN File(d) ELSE NoFile]
    /\ linesep \in LineSeps
    /\ text = <<>>
    /\ anchor = 0
    /\ position = 0
    /\ undoStack = <<>>
    /\ current_file_path = None
    /\ is_modified = FALSE
    /\ shown = TRUE
    /\ preview_visible = TRUE
    /\ html = Placeholder
    /\ window_title = InitialTitle
    /\ dlg = FALSE
    /\ find_input = <<>>
    /\ replace_input = <<>>
    /\ op = "startup:empty"
    /\ answer = "unasked"
    /\ render = "none"

NextRT ==
    \/ open_file(RoundTripPaths)
    \/ dropEvent(RoundTripPaths)
    \/ edit_text(Texts)
    \/ save_file(RoundTripPaths)

SpecRT == InitRT /\ [][NextRT]_vars

\* ------------------------------------------------------------- claims

\* the handlers that end in left_pane.textChanged, hence on_text_modified
EditOps == {"edit", "undo", "replace_one:replaced", "replace_all"}

\* the handlers that ended in a successful load_file_content
LoadedOps == {"open_file:loaded", "dropEvent:loaded", "startup:argv_loaded",
              "startup:session_loaded"}

\* the handlers in which every open() of load_file_content raised
LoadFailedOps == {"open_file:failed", "dropEvent:failed",
                  "startup:argv_failed", "startup:session_failed"}

SavedOps == {"save_file:saved", "save_file_as:saved"}

SaveFailedOps == {"save_file:failed", "save_file_as:failed"}

\* C1: renders are debounced: an edit notification never runs a render pass
\* itself (no quiet interval has passed when it arrives); the render comes
\* only after the edits have stopped for the debounce interval.
C1_RenderIsDebounced ==
    op \in EditOps => render \notin {"ok", "raised"}

\* C2: when the session record has no last_file, or its last_file no longer
\* exists, startup puts last_text into the buffer, leaves the document with
\* no associated file and marks it dirty.
C2_RestoredTextIsDirty ==
    (pc = "running" /\ session_file.kind = "object" /\ SessionPath = None)
        => /\ text = Get(session_file.obj, "last_text").s
           /\ current_file_path = None
           /\ is_modified

\* C3: replace_all is one undoable step: after a replace_all that changed
\* the buffer, a single undo gives back the buffer as it was before it.
C3_ReplaceAllUndoneByOneUndo ==
    [][(op' = "replace_all" /\ text' # text) => UndoResult' = text]_vars

\* C4: replace_all with an empty find text leaves the buffer unchanged,
\* whatever the buffer and the replacement.
C4_EmptyQueryIsNoOp ==
    [][(op' = "replace_all" /\ find_input = <<>>) => text' = text]_vars

\* C5: a render pass in which the converter raises does not crash the
\* program: the preview shows rendering-error content and the program keeps
\* running (so that a later edit renders again).
C5_RenderFailureIsContained ==
    render = "raised" => (pc = "running" /\ html.kind = "error")

\* C6: a corrupt or unreadable session file is never fatal: whatever the
\* session file holds, startup completes, and when the file is not a usable
\* record the window starts as without a session: empty, no file, clean.
C6_CorruptSessionIsNotFatal ==
    /\ pc # "crashed"
    /\ (pc = "running"
            /\ session_file.kind \in {"unreadable", "notjson", "nonobject"})
        => /\ text = <<>>
           /\ current_file_path = None
           /\ ~is_modified

\* C7: a save that fails to write, or a load that fails to read, leaves the
\* buffer, current_file_path and is_modified as they were before the call.
C7_FailedIOKeepsDocument ==
    [][op' \in SaveFailedOps \cup LoadFailedOps => UNCHANGED doc]_vars

\* C7's case: a save of a dirty document has failed, and it is still dirty.
C7_Witness ==
    /\ op = "save_file:failed"
    /\ is_modified
    /\ disk[current_file_path] # File(WriteData(text))

\* C8: is_modified is false right after every successful load (the buffer
\* then holds the file's content) and every successful save; it is true
\* after every step that changed the content through textChanged; and once
\* true it stays true until a successful load, a successful save or new_file.
C8_DirtyFlagSync ==
    [][/\ op' \in LoadedOps =>
            /\ ~is_modified'
            /\ text' = ReadText(disk'[current_file_path'].data)
       /\ op' \in SavedOps =>
            /\ ~is_modified'
            /\ disk'[current_file_path'].data = WriteData(text')
       /\ (op' \in EditOps /\ text' # text) => is_modified'
       /\ (is_modified /\ ~is_modified') =>
            op' \in LoadedOps \cup SavedOps \cup {"new_file"}]_vars

\* C8's case: a file was loaded, then replace_all changed the buffer.
C8_Witness ==
    /\ op = "replace_all"
    /\ current_file_path # None
    /\ text # ReadText(disk[current_file_path].data)
    /\ is_modified

\* the offsets at which t occurs in s, character for character
ExactHits(s, t) == {i \in 0..Len(s) : OccursAt(s, t, i)}

\* the offsets at which t occurs in s when case is ignored
FoldHits(s, t) == {i \in 0..Len(s) : FoldOccursAt(s, t, i)}

Least(S) == CHOOSE i \in S : \A j \in S : i <= j

\* the cursor findNext is to leave, given the offsets H at which the query
\* t occurs: the first occurrence at or after the cursor position p selected,
\* else the first occurrence of all, else the cursor <<a, p>> as it was
Selects(H, t, a, p) ==
    IF t = <<>> \/ H = {} THEN <<a, p>>
    ELSE LET ahead == {i \in H : i >= p}
             m == IF ahead # {} THEN Least(ahead) ELSE Least(H)
         IN  <<m, m + Len(t)>>

\* C9: find_next with a non-empty query selects the first occurrence at or
\* after the cursor position, wraps to the first occurrence from offset 0
\* when there is none, and leaves cursor and buffer alone when the query is
\* empty or occurs nowhere (an occurrence being the query's own characters).
C9_FindNextExact ==
    [][op' = "find_next" =>
        /\ <<anchor', position'>> =
              Selects(ExactHits(text, find_input), find_input, anchor,
                      position)
        /\ text' = text]_vars

\* C9 as amended: the same, an occurrence being a stretch of the buffer that
\* equals the query when case is ignored; so on "abcabc" with query "abc"
\* the calls from cursor 0, 3 and 6 select [0,3), [3,6) and [0,3).
C9_FindNextIgnoringCase ==
    [][op' = "find_next" =>
        /\ <<anchor', position'>> =
              Selects(FoldHits(text, find_input), find_input, anchor,
                      position)
        /\ text' = text
        /\ (text = ExampleText /\ find_input = ExampleFind) =>
              /\ position = 0 => <<anchor', position'>> = <<0, 3>>
              /\ position = 3 => <<anchor', position'>> = <<3, 6>>
              /\ position = 6 => <<anchor', position'>> = <<0, 3>>]_vars

\* C9's case: on "abcabc" a call has selected [0,3), where the call from
\* cursor 0 and the wrapping call from cursor 6 both end.
C9_Witness ==
    /\ op = "find_next"
    /\ text = ExampleText
    /\ find_input = ExampleFind
    /\ <<anchor, position>> = <<0, 3>>
    /\ replace_input = <<>>

\* the occurrences replaceAll replaces: scanning left to right, an
\* occurrence is taken unless it overlaps one taken before it
Taken(s, t) ==
    CHOOSE G \in SUBSET ExactHits(s, t) :
        \A i \in ExactHits(s, t) :
            i \in G <=> \A j \in G : j < i => j + Len(t) <= i

\* out is s with each taken occurrence of t replaced by r and every other
\* character kept, in order
IsReplacement(s, t, r, out) ==
    LET G == Taken(s, t)
        grow == Len(r) - Len(t)
        To(i) == i + Cardinality({g \in G : g < i}) * grow
        InMatch(i) == \E g \in G : g <= i /\ i < g + Len(t)
    IN  /\ Len(out) = Len(s) + Cardinality(G) * grow
        /\ \A g \in G : OccursAt(out, r, To(g))
        /\ \A i \in 0..(Len(s) - 1) :
              ~InMatch(i) => out[To(i) + 1] = s[i + 1]

\* C10: replace_all with a non-empty query replaces every non-overlapping
\* occurrence, left to right from the start, and never scans what a
\* replacement produced: "aaa" with "a" -> "bb" gives "bbbbbb", and with
\* "a" -> "aa" gives "aaaaaa".
C10_ReplaceAllLeftToRight ==
    [][(op' = "replace_all" /\ find_input # <<>>) =>
        /\ IsReplacement(text, find_input, replace_input, text')
        /\ (text = <<"a", "a", "a">> /\ find_input = <<"a">>) =>
              /\ replace_input = <<"b", "b">> =>
                    text' = <<"b", "b", "b", "b", "b", "b">>
              /\ replace_input = <<"a", "a">> =>
                    text' = <<"a", "a", "a", "a", "a", "a">>]_vars

\* C10's case: the replacement contained the query, and the pass ended with
\* each of the three occurrences replaced once.
C10_Witness ==
    /\ op = "replace_all"
    /\ find_input = <<"a">>
    /\ replace_input = <<"a", "a">>
    /\ text = <<"a", "a", "a", "a", "a", "a">>

\* C11: replace_one changes the buffer only when the selection equals the
\* query character for character.  A selection that differs leaves the buffer
\* as it was and the call only advances as find_next does from the cursor; a
\* selection that matches is replaced by the replacement, nothing else of the
\* buffer changes, and the call that returns has advanced as find_next does
\* from the end of what was inserted.
C11_ReplaceOneOnlyOnMatch ==
    [][op' \in {"replace_one:replaced", "replace_one:skipped"} =>
        LET lo == IF anchor <= position THEN anchor ELSE position
            hi == IF anchor <= position THEN position ELSE anchor
            at == lo + Len(replace_input)
        IN  IF Slice(text, lo, hi) # find_input
            THEN /\ text' = text
                 /\ <<anchor', position'>> =
                       Selects(FoldHits(text, find_input), find_input,
                               anchor, position)
            ELSE /\ Len(text') = Len(text) - (hi - lo) + Len(replace_input)
                 /\ Slice(text', 0, lo) = Slice(text, 0, lo)
                 /\ Slice(text', lo, at) = replace_input
                 /\ Slice(text', at, Len(text')) = Slice(text, hi, Len(text))
                 /\ pc' = "running" =>
                       <<anchor', position'>> =
                           Selects(FoldHits(text', find_input), find_input,
                                   at, at)]_vars

\* C11's case: on "aAa" with "a" -> "b" the two "a" were replaced, the "A"
\* that find_next selects in between was stepped over, and the last call
\* wrapped onto it.
C11_Witness ==
    /\ op = "replace_one:replaced"
    /\ text = <<"b", "A", "b">>
    /\ find_input = <<"a">>
    /\ replace_input = <<"b">>
    /\ <<anchor, position>> = <<1, 2>>

\* C12: replace_all with a non-empty query that occurs nowhere in the buffer
\* is a true no-op: the buffer and is_modified are after the call what they
\* were before it.
C12_NoOccurrenceIsNoOp ==
    [][(/\ op' = "replace_all"
        /\ find_input # <<>>
        /\ ExactHits(text, find_input) = {}) =>
            /\ text' = text
            /\ is_modified' = is_modified]_vars

\* C12 as amended: such a call leaves the buffer's content as it was, and
\* is_modified is true after it whatever it was before.
C12_NoOccurrenceKeepsContent ==
    [][(/\ op' = "replace_all"
        /\ find_input # <<>>
        /\ ExactHits(text, find_input) = {}) =>
            /\ text' = text
            /\ is_modified']_vars

\* C12's case: "A" -> "b" was run on "aa", which holds no "A" (a "b" would
\* show had there been one).
C12_Witness ==
    /\ op = "replace_all"
    /\ text = <<"a", "a">>
    /\ find_input = <<"A">>
    /\ replace_input = <<"b">>
    /\ is_modified

\* closeEvent's outcomes, by what became of the event and of the session write
CloseIgnoredOps == {"closeEvent:ignored", "closeEvent:ignored:no_session"}

CloseAcceptedOps == {"closeEvent:accepted", "closeEvent:accepted:no_session"}

SessionWrittenOps == {"closeEvent:ignored", "closeEvent:accepted"}

SessionNotWrittenOps ==
    {"closeEvent:ignored:no_session", "closeEvent:accepted:no_session"}

\* C13: every close request writes the session snapshot first, whatever
\* comes of the request (a write that goes through leaves a record of the
\* document as it is).  The user is asked exactly when the document is
\* dirty; the close is ignored exactly when the answer is no, and then the
\* window keeps running; otherwise it is accepted and the program ends.
\* Either way the buffer, current_file_path and is_modified are unchanged.
C13_CloseProtocol ==
    [][op' \in CloseIgnoredOps \cup CloseAcceptedOps =>
        /\ op' \in SessionWrittenOps =>
              /\ session_file'.kind = "object"
              /\ Get(session_file'.obj, "last_file") =
                    (IF current_file_path = None THEN Null
                     ELSE Str(<<current_file_path>>))
              /\ current_file_path = None =>
                    Get(session_file'.obj, "last_text") = Str(text)
        /\ answer' = "unasked" <=> ~is_modified
        /\ op' \in CloseIgnoredOps <=> answer' = "no"
        /\ op' \in CloseIgnoredOps => pc' = "running"
        /\ op' \in CloseAcceptedOps => pc' = "closed"
        /\ UNCHANGED doc]_vars

\* C13's case: the user declined to discard a typed "a"; the window runs on,
\* the document is still dirty and the snapshot holds the "a".
C13_Witness ==
    /\ op = "closeEvent:ignored"
    /\ pc = "running"
    /\ is_modified
    /\ current_file_path = None
    /\ text = <<"a">>
    /\ session_file = SessionObject([last_file |-> Null,
                                     last_text |-> Str(<<"a">>)])

\* C14: a session record that save_session writes holds the path and no
\* buffer text when the document has a file, and a null path and the whole
\* buffer when it has none; a write that fails is swallowed: the close goes
\* on to its accept or ignore and nothing but the session file is touched.
C14_SessionRecord ==
    [][/\ op' \in SessionWrittenOps =>
            /\ session_file'.kind = "object"
            /\ IF current_file_path # None
               THEN /\ session_file'.obj.last_file =
                          Str(<<current_file_path>>)
                    /\ session_file'.obj.last_text = Str(<<>>)
               ELSE /\ session_file'.obj.last_file = Null
                    /\ session_file'.obj.last_text = Str(text)
       /\ op' \in SessionNotWrittenOps =>
            /\ pc' \in {"running", "closed"}
            /\ pc' = "closed" <=> op' \in CloseAcceptedOps
            /\ session_file' \in {session_file, SessionNotJson}
            /\ UNCHANGED <<doc, disk, html>>]_vars

\* C14's case: the document was the file f1 with its text "b" in the buffer;
\* the record holds the path and no text.
C14_Witness ==
    /\ op = "closeEvent:accepted"
    /\ current_file_path = "f1"
    /\ text = <<"b">>
    /\ session_file = SessionObject([last_file |-> Str(<<"f1">>),
                                     last_text |-> Str(<<>>)])

\* C15: a file of valid UTF-8 that is loaded and then saved to the same
\* path, with no edit in between, holds after the save the bytes it held
\* before the load.
C15_LoadSaveRoundTrip ==
    [][(/\ op \in {"open_file:loaded", "dropEvent:loaded"}
        /\ op' = "save_file:saved") =>
            disk'[current_file_path].data = disk[current_file_path].data]_vars

\* how startup ended when it went by the startup argument
ArgvOps == {"startup:argv_loaded", "startup:argv_failed",
            "startup:argv_missing"}

\* the document is empty, has no file and is clean
EmptyDocument ==
    /\ text = <<>>
    /\ current_file_path = None
    /\ ~is_modified

\* C16: startup looks at the startup argument only when there is no session
\* file.  With a session file, whatever it holds, the argument's file is
\* not loaded: the document has no file or the file the session names.
\* Without one and with an argument, the argument's file is loaded when it
\* exists (and can be read), and else the buffer stays empty with no file.
C16_ArgumentOnlyWithoutSession ==
    pc # "init" =>
        /\ session_file.kind # "missing" =>
              /\ op \notin ArgvOps
              /\ current_file_path \in {None, SessionPath}
        /\ (session_file.kind = "missing" /\ argv # None) =>
              /\ op \in ArgvOps
              /\ IF disk[argv].exists /\ op # "startup:argv_failed"
                 THEN /\ op = "startup:argv_loaded"
                      /\ current_file_path = argv
                      /\ text = ReadText(disk[argv].data)
                 ELSE EmptyDocument

\* C16's case: the argument named the existing file f2, the session file
\* named f1, and the window came up with f1.
C16_Witness ==
    /\ pc = "running"
    /\ argv = "f2"
    /\ disk["f2"].exists
    /\ session_file.kind = "object"
    /\ current_file_path = "f1"
    /\ text = ReadText(disk["f1"].data)

\* the handlers that end in a call of update_preview on new buffer content
ContentOps == EditOps \cup LoadedOps \cup {"new_file", "startup:session_text"}

\* C17: hiding the preview does not suppress later renders.  While the pane
\* is hidden a render request changes nothing (the preview keeps what it
\* showed, the program runs on); when toggle_preview_mode makes the pane
\* visible again the preview shows the rendering of the buffer as it is; and
\* with the pane visible every later change of content is rendered, in each
\* case by a render pass that returns.
C17_HidingKeepsRendersArmed ==
    [][/\ (op' \in ContentOps /\ ~IsVisible) =>
            /\ render' = "skipped"
            /\ html' = html
            /\ pc' # "crashed"
       /\ (op' = "toggle_preview_mode" /\ preview_visible'
                /\ pc' = "running") =>
            /\ ~preview_visible
            /\ render' = "ok"
            /\ html' = convert_markdown_to_html(text')
       /\ (op' \in ContentOps /\ IsVisible /\ pc' = "running") =>
            /\ render' = "ok"
            /\ html' = convert_markdown_to_html(text')]_vars

\* C17's case: the pane was hidden and has been made visible again, over a
\* typed "a" that the preview now shows.
C17_Witness ==
    /\ op = "toggle_preview_mode"
    /\ preview_visible
    /\ render = "ok"
    /\ text = <<"a">>
    /\ is_modified
    /\ html = convert_markdown_to_html(<<"a">>)

\* the handlers that ended with the buffer replaced wholesale
ReplacingOps == {"new_file", "open_file:loaded", "dropEvent:loaded"}

\* C18: unsaved changes are never discarded without confirmation: a handler
\* that replaces the content of a dirty buffer (new_file, open_file, a file
\* dropped on the window) has asked confirm_discard_changes and got yes; and
\* when the user answers no, the buffer, current_file_path and is_modified
\* stay as they were.
C18_NoDiscardWithoutConfirmation ==
    [][/\ (is_modified /\ op' \in ReplacingOps /\ text' # text) =>
            answer' = "yes"
       /\ answer' = "no" => UNCHANGED doc]_vars

\* C19: whenever the preview pane is visible and the buffer's content was
\* set by a load, a session restore, new_file or an edit, the preview shows
\* the rendering of the buffer's content; so too right after startup, when
\* the content came from the session or the startup file.
C19_PreviewShowsBuffer ==
    (pc = "running" /\ IsVisible /\ op \in ContentOps) =>
        html = convert_markdown_to_html(text)

====
